---- MODULE Spec2Model ----
(***************************************************************************)
(* Model of src/src/distributed_config.py: the DistributedConfig store.   *)
(*                                                                         *)
(* The three SQLite tables are the variables kv_entries, revisions and     *)
(* leases; the in-memory fields of the object are revision, compacted_rev  *)
(* and watches.  A call that raises leaves the tables as they were (the    *)
(* "with sqlite3.connect(...) as conn" block rolls back) but keeps every   *)
(* assignment already made to the in-memory fields.                        *)
(*                                                                         *)
(* Keys are sequences of one-character strings, NULL/None is the value     *)
(* None below, timestamps of rows are left out (they take no part in any   *)
(* query condition except the lease deadline).                             *)
(***************************************************************************)
EXTENDS Integers, Sequences, FiniteSets, TLC

VARIABLES
    kv_entries,     \* table kv_entries: set of rows
    revisions,      \* table revisions: set of rows
    leases,         \* table leases: function lease id -> row
    revision,       \* self.revision
    compacted_rev,  \* self.compacted_rev
    watches,        \* self.watches: the set of registered watch ids
    watchObj,       \* the Watch objects the poll threads close over
    pollPc,         \* position of each watch's poll_changes thread
    delivered,      \* per watch: the calls made to its callback, in order
    now,            \* the clock (datetime.utcnow()), in seconds
    lock,           \* owner of self.lock ("free" or a thread)
    txn,            \* per thread: the frame of its txn call (arguments, locals, position)
    usedIds,        \* the lease and watch ids uuid4 has already produced
    returned,       \* history: the revisions returned by successful put/delete calls
    sweeper,        \* the frame of the thread sweep_expired_leases (revoked is
                    \* history: the lease ids it has passed to revoke_lease)
    ka,             \* the frame of the client thread that calls keepalive
    unwatched,      \* history: per watch whose unwatch has returned, the
                    \* revision counter at that moment
    info            \* the frame of the client thread that calls get_cluster_info:
                    \* its position and the fields of the report read so far

vars == <<kv_entries, revisions, leases, revision, compacted_rev, watches,
          watchObj, pollPc, delivered, now, lock, txn, usedIds, returned,
          sweeper, ka, unwatched, info>>

(***************************************************************************)
(* Bounds and input sets                                                   *)
(***************************************************************************)
MaxRev == 4                     \* the revision counter stops here
MaxTime == 2                    \* the clock stops here

None == "None"                  \* Python None / SQL NULL
NoRange == <<>>                 \* range_end None or "" (both falsy)
Latest == -1                    \* get(key) with revision None

Keys == {<<"a">>, <<"a", "b">>}
Values == {"1", "2"}
RangeEnds == {<<"a", "b">>, <<"b">>}
Prefixes == {<<>>, <<"a">>, <<"a", "b">>, <<"b">>}
LeaseIds == {"L1"}
WatchIds == {"w1"}
Ttls == {1}
Threads == {"t1", "t2"}         \* threads that call txn

\* txn calls: compare holds clauses (key, op, value), the two branches hold
\* ops (op_type, key, value); failure_ops <<>> is the omitted argument
TxnCalls ==
    { [compare |-> << <<<<"a">>, "==", "1">> >>,
       success_ops |-> << <<"put", <<"a">>, "2">> >>,
       failure_ops |-> << <<"put", <<"a">>, "1">> >>],
      [compare |-> << <<<<"a">>, "!=", "1">>, <<<<"a", "b">>, "==", "2">> >>,
       success_ops |-> << <<"delete", <<"a">>, "">>, <<"put", <<"a", "b">>, "1">> >>,
       failure_ops |-> <<>>],
      [compare |-> <<>>,
       success_ops |-> << <<"put", <<"a", "b">>, "2">> >>,
       failure_ops |-> <<>>] }
WatchPrefixes == {<<"a">>, <<"a", "b">>}
CompactRevs == {1, MaxRev}
\* the keys and values put where the value written plays no part (SpecWatch, SpecLease)
FewKeys == {<<"a">>}
FewValues == {"1"}
HistoryLimits == {1, 10}        \* 10 is the default of limit

(***************************************************************************)
(* Strings                                                                 *)
(***************************************************************************)
\* byte value of a character (BINARY collation compares bytes)
Ord(c) ==
    CASE c = "%" -> 37
      [] c = "A" -> 65
      [] c = "B" -> 66
      [] c = "_" -> 95
      [] c = "a" -> 97
      [] c = "b" -> 98

\* ASCII case folding used by LIKE
Lower(c) ==
    CASE c = "A" -> "a"
      [] c = "B" -> "b"
      [] OTHER -> c

RECURSIVE StrLess(_, _)
\* s < t for two TEXT values under the BINARY collation
StrLess(s, t) ==
    IF t = <<>> THEN FALSE
    ELSE IF s = <<>> THEN TRUE
    ELSE IF Ord(Head(s)) # Ord(Head(t)) THEN Ord(Head(s)) < Ord(Head(t))
    ELSE StrLess(Tail(s), Tail(t))

StrLeq(s, t) == s = t \/ StrLess(s, t)

RECURSIVE Like(_, _)
\* SQLite's  s LIKE pattern : % matches any run, _ any one character,
\* other characters match case-insensitively
Like(s, pattern) ==
    IF pattern = <<>> THEN s = <<>>
    ELSE IF Head(pattern) = "%"
         THEN \E i \in 0..Len(s) : Like(SubSeq(s, i + 1, Len(s)), Tail(pattern))
    ELSE IF s = <<>> THEN FALSE
    ELSE IF Head(pattern) = "_" THEN Like(Tail(s), Tail(pattern))
    ELSE /\ Lower(Head(s)) = Lower(Head(pattern))
         /\ Like(Tail(s), Tail(pattern))

\* the parameter f"{prefix}%"
PrefixPattern(prefix) == Append(prefix, "%")

(***************************************************************************)
(* Tables                                                                  *)
(***************************************************************************)
\* INSERT INTO kv_entries: PRIMARY KEY (key, mod_revision)
KvPkFree(kv, row) ==
    \A r \in kv : ~(r.key = row.key /\ r.mod_revision = row.mod_revision)

\* INSERT INTO revisions: PRIMARY KEY revision
RevPkFree(revs, rev) == \A r \in revs : r.revision # rev

\* ... WHERE key = ? AND deleted = 0 [AND mod_revision <= ?]
\*     ORDER BY mod_revision DESC LIMIT 1        (no row: the empty set)
LatestLiveRow(kv, key, upTo) ==
    LET cand == {r \in kv : /\ r.key = key
                            /\ r.deleted = 0
                            /\ (upTo = Latest \/ r.mod_revision <= upTo)}
    IN  {r \in cand : \A q \in cand : q.mod_revision <= r.mod_revision}

\* the state an operation works on and hands back; raised says whether the
\* call raised, ret is the revision it returned
Store == [kv_entries |-> kv_entries, revisions |-> revisions, leases |-> leases,
          revision |-> revision, returned |-> returned, raised |-> FALSE, ret |-> 0]

(***************************************************************************)
(* Leases                                                                  *)
(***************************************************************************)
\* _add_key_to_lease, on a connection of its own.  openWrite: the caller's
\* connection has written and not yet committed, so it holds the database's
\* write lock and the UPDATE here ends in "database is locked".
add_key_to_lease(ls, lease_id, key, openWrite) ==
    IF lease_id \notin DOMAIN ls
    THEN [raised |-> FALSE, leases |-> ls]
    ELSE IF \E i \in 1..Len(ls[lease_id].keys) : ls[lease_id].keys[i] = key
    THEN [raised |-> FALSE, leases |-> ls]
    ELSE IF openWrite
    THEN [raised |-> TRUE, leases |-> ls]
    ELSE [raised |-> FALSE,
          leases |-> [ls EXCEPT ![lease_id].keys = Append(@, key)]]

\* the frame of the client thread while it is not inside keepalive; ret is
\* what its last keepalive call returned
IdleKeepalive == [pc |-> "idle", lease_id |-> None, ttl_s |-> 0, ret |-> None]

\* the frame of the client thread while it is not inside get_cluster_info;
\* the fields are those of the report of its last call
IdleInfo == [pc |-> "idle", revision |-> 0, compacted_revision |-> 0,
             lease_count |-> 0, key_count |-> 0]

\* ExpiredIds with the comparison turned round: the leases still running
ExpiredIdsRunning(ls, t) == {l \in DOMAIN ls : ls[l].expires_at > t}

\* SELECT id FROM leases WHERE expires_at < ?
ExpiredIds(ls, t) == {l \in DOMAIN ls : ls[l].expires_at < t}

\* _count_leases: SELECT COUNT(*) FROM leases WHERE expires_at > ?
count_leases(ls, t) == Cardinality({l \in DOMAIN ls : ls[l].expires_at > t})

\* _count_keys: SELECT COUNT(DISTINCT key) FROM kv_entries WHERE deleted = 0
count_keys(kv) == Cardinality({r.key : r \in {x \in kv : x.deleted = 0}})

(***************************************************************************)
(* Core KV operations                                                      *)
(***************************************************************************)
\* NextVersion without the increment for a key that is live
NextVersionKept(row) == IF row = {} THEN 1 ELSE (CHOOSE r \in row : TRUE).version

\* version = (row[0] if row else 0) + 1
NextVersion(row) == (IF row = {} THEN 0 ELSE (CHOOSE r \in row : TRUE).version) + 1

\* put: S with the call's effect.  self.revision is incremented before the
\* INSERTs; when one of them (or the lease update) raises, the tables are
\* rolled back and the counter keeps its new value.
put(S, key, value, lease_id) ==
    LET row == LatestLiveRow(S.kv_entries, key, Latest)
        version == NextVersion(row)
        rev == S.revision + 1
        entry == [key |-> key, value |-> value, version |-> version,
                  create_revision |-> rev, mod_revision |-> rev,
                  lease_id |-> lease_id, deleted |-> 0]
        logrec == [revision |-> rev, operation |-> "put", key |-> key,
                   details |-> version]
        bind == IF lease_id # None
                THEN add_key_to_lease(S.leases, lease_id, key, TRUE)
                ELSE [raised |-> FALSE, leases |-> S.leases]
    IN  IF \/ ~KvPkFree(S.kv_entries, entry)
           \/ ~RevPkFree(S.revisions, rev)
           \/ bind.raised
        THEN [S EXCEPT !.revision = rev, !.raised = TRUE]
        ELSE [S EXCEPT !.kv_entries = @ \cup {entry},
                       !.revisions = @ \cup {logrec},
                       !.leases = bind.leases,
                       !.revision = rev,
                       !.returned = Append(@, rev),
                       !.raised = FALSE,
                       !.ret = rev]

\* the KVEntry built from a row
KVEntry(r) == [key |-> r.key, value |-> r.value, version |-> r.version,
               create_revision |-> r.create_revision,
               mod_revision |-> r.mod_revision, lease_id |-> r.lease_id]

\* get: the set holding the KVEntry of the row found, empty for None
get(kv, key, rev) == {KVEntry(r) : r \in LatestLiveRow(kv, key, rev)}

RECURSIVE SetToSeq(_)
\* the rows of a SELECT without ORDER BY, in some order
SetToSeq(rows) ==
    IF rows = {} THEN <<>>
    ELSE LET r == CHOOSE x \in rows : TRUE
         IN  <<r>> \o SetToSeq(rows \ {r})

\* UPDATE kv_entries SET deleted = 1 WHERE key = ?
MarkDeleted(kv, k) ==
    {[r EXCEPT !.deleted = IF r.key = k THEN 1 ELSE @] : r \in kv}

RECURSIVE DeleteRows(_, _, _, _)
\* the loop  for row in rows  of delete: [raised, kv_entries, revisions]
DeleteRows(kv, revs, rows, rev) ==
    IF rows = <<>>
    THEN [raised |-> FALSE, kv_entries |-> kv, revisions |-> revs]
    ELSE LET k == Head(rows).key
         IN  IF ~RevPkFree(revs, rev)
             THEN [raised |-> TRUE, kv_entries |-> kv, revisions |-> revs]
             ELSE DeleteRows(MarkDeleted(kv, k),
                             revs \cup {[revision |-> rev, operation |-> "delete",
                                         key |-> k, details |-> 0]},
                             Tail(rows), rev)

\* delete: S with the call's effect
delete(S, key, range_end) ==
    LET rev == S.revision + 1
        rows == IF range_end # NoRange
                THEN SetToSeq({r \in S.kv_entries :
                                 /\ StrLeq(key, r.key)
                                 /\ StrLess(r.key, range_end)
                                 /\ r.deleted = 0})
                ELSE <<[key |-> key]>>
        done == DeleteRows(S.kv_entries, S.revisions, rows, rev)
    IN  IF done.raised
        THEN [S EXCEPT !.revision = rev, !.raised = TRUE]
        ELSE [S EXCEPT !.kv_entries = done.kv_entries,
                       !.revisions = done.revisions,
                       !.revision = rev,
                       !.returned = Append(@, rev),
                       !.raised = FALSE,
                       !.ret = rev]

\* get_prefix: the rows returned, ORDER BY key (rows of one key in the order
\* of the primary key index)
PrefixRows(kv, prefix) ==
    {r \in kv : Like(r.key, PrefixPattern(prefix)) /\ r.deleted = 0}

RowBefore(r, q) ==
    \/ StrLess(r.key, q.key)
    \/ r.key = q.key /\ r.mod_revision < q.mod_revision

RECURSIVE SortRows(_)
SortRows(rows) ==
    IF rows = {} THEN <<>>
    ELSE LET r == CHOOSE x \in rows : \A y \in rows \ {x} : RowBefore(x, y)
         IN  <<r>> \o SortRows(rows \ {r})

get_prefix(kv, prefix) ==
    LET rows == SortRows(PrefixRows(kv, prefix))
    IN  [i \in 1..Len(rows) |-> KVEntry(rows[i])]

RECURSIVE RowsDesc(_)
\* rows of kv_entries ORDER BY mod_revision DESC
RowsDesc(rows) ==
    IF rows = {} THEN <<>>
    ELSE LET r == CHOOSE x \in rows : \A y \in rows : y.mod_revision <= x.mod_revision
         IN  <<r>> \o RowsDesc(rows \ {r})

\* list_revision_history: the first limit rows of the key, newest first
list_revision_history(kv, key, limit) ==
    LET rows == RowsDesc({r \in kv : r.key = key})
        n == IF Len(rows) < limit THEN Len(rows) ELSE limit
    IN  [i \in 1..n |-> KVEntry(rows[i])]

\* how a call of get ends: with a KVEntry or with None (it has no raise)
get_outcome(kv, key, rev) == IF get(kv, key, rev) = {} THEN "None" ELSE "KVEntry"

\* revoke_lease's loop  for key in keys: self.delete(key)  (a delete that
\* raises ends the loop and the call)
RECURSIVE RevokeKeys(_, _)
RevokeKeys(S, keys) ==
    IF keys = <<>> \/ S.raised THEN S
    ELSE RevokeKeys(delete(S, Head(keys), NoRange), Tail(keys))

\* revoke_lease that allocates one revision for the whole revocation and
\* logs every key's delete at it
revoke_lease_once(S, lease_id) ==
    IF lease_id \notin DOMAIN S.leases THEN S
    ELSE LET rev == S.revision + 1
             keys == S.leases[lease_id].keys
             done == DeleteRows(S.kv_entries, S.revisions,
                                [i \in 1..Len(keys) |-> [key |-> keys[i]]], rev)
         IN  IF done.raised
             THEN [S EXCEPT !.revision = rev, !.raised = TRUE]
             ELSE [S EXCEPT !.kv_entries = done.kv_entries,
                            !.revisions = done.revisions,
                            !.revision = rev,
                            !.leases = [l \in DOMAIN S.leases \ {lease_id} |->
                                          S.leases[l]]]

\* revoke_lease: S with the call's effect
revoke_lease(S, lease_id) ==
    LET after == IF lease_id \in DOMAIN S.leases
                 THEN RevokeKeys(S, S.leases[lease_id].keys)
                 ELSE S
    IN  IF after.raised THEN after
        ELSE [after EXCEPT !.leases =
                 [l \in DOMAIN after.leases \ {lease_id} |-> after.leases[l]]]

(***************************************************************************)
(* Transactions                                                            *)
(***************************************************************************)
RECURSIVE EvalCompareLast(_, _, _)
\* EvalCompare with  passed = not failed  in the loop: the last clause decides
EvalCompareLast(kv, compare, passed) ==
    IF compare = <<>> THEN passed
    ELSE LET entry == {r \in kv : /\ r.key = Head(compare)[1]
                                  /\ r.deleted = 0
                                  /\ \A q \in kv : q.key = r.key /\ q.deleted = 0
                                                      => q.mod_revision <= r.mod_revision}
             failed ==
                 IF Head(compare)[2] = "=="
                 THEN entry = {} \/ (CHOOSE e \in entry : TRUE).value # Head(compare)[3]
                 ELSE IF Head(compare)[2] = "!="
                 THEN entry # {} /\ (CHOOSE e \in entry : TRUE).value = Head(compare)[3]
                 ELSE FALSE
         IN  EvalCompareLast(kv, Tail(compare), ~failed)

RECURSIVE EvalCompare(_, _, _)
\* the loop over compare: the value of passed after it
EvalCompare(kv, compare, passed) ==
    IF compare = <<>> THEN passed
    ELSE LET key == Head(compare)[1]
             op == Head(compare)[2]
             value == Head(compare)[3]
             entry == get(kv, key, Latest)
             failed ==
                 IF op = "=="
                 THEN entry = {} \/ (CHOOSE e \in entry : TRUE).value # value
                 ELSE IF op = "!="
                 THEN entry # {} /\ (CHOOSE e \in entry : TRUE).value = value
                 ELSE FALSE
         IN  EvalCompare(kv, Tail(compare), IF failed THEN FALSE ELSE passed)

\* the frame of a thread that is not inside txn
IdleFrame == [pc |-> "idle", compare |-> <<>>, success_ops |-> <<>>,
              failure_ops |-> <<>>, passed |-> FALSE, ops |-> <<>>,
              next |-> 1, results |-> <<>>]

\* Acquirable for a store whose operations do not take the lock
AcquirableUnlocked(t) == TRUE

\* with self.lock (an RLock): thread t can take it
Acquirable(t) == lock \in {"free", t}

(***************************************************************************)
(* Watches                                                                 *)
(***************************************************************************)
\* the columns of table revisions, and those poll_changes selects from it
RevisionsColumns == {"revision", "timestamp", "operation", "key", "details"}
PollColumns == {"key", "value", "operation"}

\* r.revision > ?  with the watch's last_revision bound.  last_revision is
\* [int |-> n] while it holds a number and [text |-> s] once it holds a string;
\* an INTEGER column is less than any TEXT value
RevisionAfter(rev, last) == IF "int" \in DOMAIN last THEN rev > last.int ELSE FALSE

RECURSIVE LogOrder(_)
\* rows of revisions ORDER BY revision
LogOrder(rows) ==
    IF rows = {} THEN <<>>
    ELSE LET r == CHOOSE x \in rows : \A y \in rows : x.revision <= y.revision
         IN  <<r>> \o LogOrder(rows \ {r})

\* the rows poll_changes fetches: (key, value, operation); value has no column
PollRows(revs, w) ==
    LogOrder({r \in revs : /\ Like(r.key, PrefixPattern(w.key_prefix))
                           /\ RevisionAfter(r.revision, w.last_revision)})

\* the callback calls for the rows:  callback(row[2], row[0], row[1] or "")
Events(rows) == [i \in 1..Len(rows) |-> <<rows[i].operation, rows[i].key, "">>]

(***************************************************************************)
(* The state machine                                                       *)
(***************************************************************************)
Init ==
    /\ kv_entries = {}
    /\ revisions = {}
    /\ leases = <<>>
    /\ revision = 0
    /\ compacted_rev = 0
    /\ watches = {}
    /\ watchObj = <<>>
    /\ pollPc = <<>>
    /\ delivered = <<>>
    /\ now = 0
    /\ lock = "free"
    /\ txn = [t \in Threads |-> IdleFrame]
    /\ usedIds = {}
    /\ returned = <<>>
    /\ sweeper = [pc |-> "sleep", rows |-> <<>>, revoked |-> {}]
    /\ ka = IdleKeepalive
    /\ unwatched = <<>>
    /\ info = IdleInfo

\* the tables and the counter take the values of S
Commit(S) ==
    /\ kv_entries' = S.kv_entries
    /\ revisions' = S.revisions
    /\ leases' = S.leases
    /\ revision' = S.revision
    /\ returned' = S.returned

Put(key, value, lease_id) ==
    /\ Acquirable("client")
    /\ revision < MaxRev
    /\ LET S == put(Store, key, value, lease_id)
       IN  Commit(S)
    /\ UNCHANGED <<compacted_rev, watches, watchObj, pollPc, delivered, now,
                   lock, txn, usedIds>>
    /\ UNCHANGED <<sweeper, ka, unwatched, info>>

Delete(key) ==
    /\ Acquirable("client")
    /\ revision < MaxRev
    /\ LET S == delete(Store, key, NoRange)
       IN  Commit(S)
    /\ UNCHANGED <<compacted_rev, watches, watchObj, pollPc, delivered, now,
                   lock, txn, usedIds>>
    /\ UNCHANGED <<sweeper, ka, unwatched, info>>

DeleteRange(key, range_end) ==
    /\ Acquirable("client")
    /\ revision < MaxRev
    /\ LET S == delete(Store, key, range_end)
       IN  Commit(S)
    /\ UNCHANGED <<compacted_rev, watches, watchObj, pollPc, delivered, now,
                   lock, txn, usedIds>>
    /\ UNCHANGED <<sweeper, ka, unwatched, info>>

GrantLease(ttl_s) ==
    /\ \E id \in LeaseIds \ usedIds :
         /\ leases' = [l \in DOMAIN leases \cup {id} |->
                         IF l = id
                         THEN [ttl_s |-> ttl_s, expires_at |-> now + ttl_s, keys |-> <<>>]
                         ELSE leases[l]]
         /\ usedIds' = usedIds \cup {id}
    /\ UNCHANGED <<kv_entries, revisions, revision, compacted_rev, watches, watchObj,
                   pollPc, delivered, now, lock, txn, returned>>
    /\ UNCHANGED <<sweeper, ka, unwatched, info>>

RevokeLease(lease_id) ==
    /\ Acquirable("client")
    /\ revision + (IF lease_id \in DOMAIN leases THEN Len(leases[lease_id].keys) ELSE 0)
          <= MaxRev
    /\ LET S == revoke_lease(Store, lease_id)
       IN  Commit(S)
    /\ UNCHANGED <<compacted_rev, watches, watchObj, pollPc, delivered, now,
                   lock, txn, usedIds>>
    /\ UNCHANGED <<sweeper, ka, unwatched, info>>

\* compact
Compact(rev) ==
    /\ Acquirable("client")
    /\ revisions' = {r \in revisions : ~(r.revision <= rev)}
    /\ compacted_rev' = IF compacted_rev >= rev THEN compacted_rev ELSE rev
    /\ UNCHANGED <<kv_entries, leases, revision, watches, watchObj, pollPc,
                   delivered, now, lock, txn, usedIds, returned>>
    /\ UNCHANGED <<sweeper, ka, unwatched, info>>

\* watch: registers the Watch object and starts its poll thread
Watch(key_prefix) ==
    /\ \E w \in WatchIds \ usedIds :
         /\ watches' = watches \cup {w}
         /\ watchObj' = [x \in DOMAIN watchObj \cup {w} |->
                           IF x = w
                           THEN [key_prefix |-> key_prefix,
                                 last_revision |-> [int |-> revision]]
                           ELSE watchObj[x]]
         /\ pollPc' = [x \in DOMAIN pollPc \cup {w} |->
                         IF x = w THEN "loop" ELSE pollPc[x]]
         /\ delivered' = [x \in DOMAIN delivered \cup {w} |->
                            IF x = w THEN <<>> ELSE delivered[x]]
         /\ usedIds' = usedIds \cup {w}
    /\ UNCHANGED <<kv_entries, revisions, leases, revision, compacted_rev, now,
                   lock, txn, returned>>
    /\ UNCHANGED <<sweeper, ka, unwatched, info>>

\* unwatch: self.watches.pop(watch_id, None)
Unwatch(w) ==
    /\ watches' = watches \ {w}
    /\ UNCHANGED <<kv_entries, revisions, leases, revision, compacted_rev, watchObj,
                   pollPc, delivered, now, lock, txn, usedIds, returned>>
    /\ unwatched' = IF w \in watches
                    THEN [x \in DOMAIN unwatched \cup {w} |->
                            IF x = w THEN revision ELSE unwatched[x]]
                    ELSE unwatched
    /\ UNCHANGED <<sweeper, ka, info>>

\* a turn of poll_changes that neither tests  watch_id in self.watches  nor
\* names a missing column: it delivers the rows after last_revision
poll_changes_unregistered(w) ==
    /\ w \in DOMAIN pollPc
    /\ pollPc[w] = "loop"
    /\ Acquirable(w)
    /\ LET rows == LogOrder({r \in revisions :
                               /\ Like(r.key, PrefixPattern(watchObj[w].key_prefix))
                               /\ r.revision > watchObj[w].last_revision.int})
       IN  /\ delivered' = [delivered EXCEPT ![w] = @ \o Events(rows)]
           /\ watchObj' = IF rows # <<>>
                          THEN [watchObj EXCEPT ![w].last_revision =
                                    [int |-> rows[Len(rows)].revision]]
                          ELSE watchObj
    /\ UNCHANGED <<kv_entries, revisions, leases, revision, compacted_rev, watches,
                   pollPc, now, lock, txn, usedIds, returned, sweeper, ka, unwatched, info>>

\* one turn of the loop of poll_changes: the loop test, the query under the
\* lock, the callbacks, the update of last_revision.  The query names a
\* column the table does not have, so it raises and the thread ends.
poll_changes(w) ==
    /\ w \in DOMAIN pollPc
    /\ pollPc[w] = "loop"
    /\ IF w \notin watches
       THEN /\ pollPc' = [pollPc EXCEPT ![w] = "exited"]
            /\ UNCHANGED <<watchObj, delivered>>
       ELSE /\ Acquirable(w)
            /\ IF ~(PollColumns \subseteq RevisionsColumns)
               THEN /\ pollPc' = [pollPc EXCEPT ![w] = "raised"]
                    /\ UNCHANGED <<watchObj, delivered>>
               ELSE LET rows == PollRows(revisions, watchObj[w])
                    IN  /\ delivered' = [delivered EXCEPT ![w] = @ \o Events(rows)]
                        /\ watchObj' =
                             IF rows # <<>>
                             THEN [watchObj EXCEPT ![w].last_revision =
                                       [text |-> rows[Len(rows)].operation]]
                             ELSE watchObj
                        /\ UNCHANGED pollPc
    /\ UNCHANGED <<kv_entries, revisions, leases, revision, compacted_rev, watches,
                   now, lock, txn, usedIds, returned>>
    /\ UNCHANGED <<sweeper, ka, unwatched, info>>

\* txn up to the choice of the branch: takes the lock, evaluates compare
TxnBegin(t, compare, success_ops, failure_ops) ==
    /\ txn[t].pc = "idle"
    /\ Acquirable(t)
    /\ LET passed == EvalCompare(kv_entries, compare, TRUE)
           ops == IF passed THEN success_ops ELSE failure_ops
       IN  /\ revision + Len(ops) <= MaxRev
           /\ txn' = [txn EXCEPT ![t] =
                        [pc |-> "apply", compare |-> compare,
                         success_ops |-> success_ops, failure_ops |-> failure_ops,
                         passed |-> passed, ops |-> ops, next |-> 1,
                         results |-> <<>>]]
    /\ lock' = t
    /\ UNCHANGED <<kv_entries, revisions, leases, revision, compacted_rev, watches,
                   watchObj, pollPc, delivered, now, usedIds, returned>>
    /\ UNCHANGED <<sweeper, ka, unwatched, info>>

\* one turn of the loop over ops
TxnApply(t) ==
    /\ txn[t].pc = "apply"
    /\ txn[t].next <= Len(txn[t].ops)
    /\ Acquirable(t)
    /\ revision < MaxRev
    /\ LET op_type == txn[t].ops[txn[t].next][1]
           key == txn[t].ops[txn[t].next][2]
           value == txn[t].ops[txn[t].next][3]
           S == IF op_type = "put" THEN put(Store, key, value, None)
                ELSE IF op_type = "delete" THEN delete(Store, key, NoRange)
                ELSE Store
       IN  /\ Commit(S)
           /\ IF S.raised
              THEN /\ txn' = [txn EXCEPT ![t] = IdleFrame]
                   /\ lock' = "free"
              ELSE /\ txn' = [txn EXCEPT
                                ![t].next = @ + 1,
                                ![t].results =
                                    IF op_type \in {"put", "delete"}
                                    THEN Append(@, [key |-> key, revision |-> S.ret])
                                    ELSE @]
                   /\ UNCHANGED lock
    /\ UNCHANGED <<compacted_rev, watches, watchObj, pollPc, delivered, now, usedIds>>
    /\ UNCHANGED <<sweeper, ka, unwatched, info>>

\* txn returns {"succeeded": passed, "results": results} and leaves the lock
TxnReturn(t) ==
    /\ txn[t].pc = "apply"
    /\ txn[t].next > Len(txn[t].ops)
    /\ txn' = [txn EXCEPT ![t] = IdleFrame]
    /\ lock' = "free"
    /\ UNCHANGED <<kv_entries, revisions, leases, revision, compacted_rev, watches,
                   watchObj, pollPc, delivered, now, usedIds, returned>>
    /\ UNCHANGED <<sweeper, ka, unwatched, info>>

\* the clock advances by one second
Tick ==
    /\ now < MaxTime
    /\ now' = now + 1
    /\ UNCHANGED <<kv_entries, revisions, leases, revision, compacted_rev, watches,
                   watchObj, pollPc, delivered, lock, txn, usedIds, returned,
                   sweeper, ka, unwatched, info>>

\* keepalive up to  if not row: return False : the SELECT of ttl_s on a
\* connection of its own, outside self.lock
KeepaliveRead(lease_id) ==
    /\ ka.pc = "idle"
    /\ ka' = IF lease_id \in DOMAIN leases
             THEN [pc |-> "update", lease_id |-> lease_id,
                   ttl_s |-> leases[lease_id].ttl_s, ret |-> None]
             ELSE [pc |-> "idle", lease_id |-> lease_id, ttl_s |-> 0, ret |-> "False"]
    /\ UNCHANGED <<kv_entries, revisions, leases, revision, compacted_rev, watches,
                   watchObj, pollPc, delivered, now, lock, txn, usedIds, returned,
                   sweeper, unwatched, info>>

\* the rest of keepalive: UPDATE leases SET expires_at = ? WHERE id = ?  on a
\* second connection (no row is updated when the lease is gone), return True
KeepaliveUpdate ==
    /\ ka.pc = "update"
    /\ leases' = IF ka.lease_id \in DOMAIN leases
                 THEN [leases EXCEPT ![ka.lease_id].expires_at = now + ka.ttl_s]
                 ELSE leases
    /\ ka' = [ka EXCEPT !.pc = "idle", !.ret = "True"]
    /\ UNCHANGED <<kv_entries, revisions, revision, compacted_rev, watches,
                   watchObj, pollPc, delivered, now, lock, txn, usedIds, returned,
                   sweeper, unwatched, info>>

\* the sweeper after its sleep: reads the ids of the leases whose deadline
\* has passed; with none it is back at the sleep
SweepRead ==
    /\ sweeper.pc = "sleep"
    /\ LET rows == SetToSeq(ExpiredIds(leases, now))
       IN  sweeper' = [sweeper EXCEPT !.pc = IF rows = <<>> THEN "sleep" ELSE "revoke",
                                      !.rows = rows]
    /\ UNCHANGED <<kv_entries, revisions, leases, revision, compacted_rev, watches,
                   watchObj, pollPc, delivered, now, lock, txn, usedIds, returned, ka, unwatched, info>>

\* one turn of the sweeper's loop  for row in rows: self.revoke_lease(row[0])
SweepRevoke ==
    /\ sweeper.pc = "revoke"
    /\ Acquirable("sweeper")
    /\ revision + (IF Head(sweeper.rows) \in DOMAIN leases
                   THEN Len(leases[Head(sweeper.rows)].keys) ELSE 0) <= MaxRev
    /\ LET S == revoke_lease(Store, Head(sweeper.rows))
       IN  Commit(S)
    /\ sweeper' = [pc |-> IF Tail(sweeper.rows) = <<>> THEN "sleep" ELSE "revoke",
                   rows |-> Tail(sweeper.rows),
                   revoked |-> sweeper.revoked \cup {Head(sweeper.rows)}]
    /\ UNCHANGED <<compacted_rev, watches, watchObj, pollPc, delivered, now,
                   lock, txn, usedIds, ka, unwatched, info>>

\* get_cluster_info builds its dict field by field, outside self.lock:
\* "revision": self.revision
InfoRevision ==
    /\ info.pc = "idle"
    /\ info' = [IdleInfo EXCEPT !.pc = "compacted_revision", !.revision = revision]
    /\ UNCHANGED <<kv_entries, revisions, leases, revision, compacted_rev, watches,
                   watchObj, pollPc, delivered, now, lock, txn, usedIds, returned,
                   sweeper, ka, unwatched>>

\* "compacted_revision": self.compacted_rev
InfoCompacted ==
    /\ info.pc = "compacted_revision"
    /\ info' = [info EXCEPT !.pc = "lease_count", !.compacted_revision = compacted_rev]
    /\ UNCHANGED <<kv_entries, revisions, leases, revision, compacted_rev, watches,
                   watchObj, pollPc, delivered, now, lock, txn, usedIds, returned,
                   sweeper, ka, unwatched>>

\* "lease_count": self._count_leases()
InfoLeases ==
    /\ info.pc = "lease_count"
    /\ info' = [info EXCEPT !.pc = "key_count", !.lease_count = count_leases(leases, now)]
    /\ UNCHANGED <<kv_entries, revisions, leases, revision, compacted_rev, watches,
                   watchObj, pollPc, delivered, now, lock, txn, usedIds, returned,
                   sweeper, ka, unwatched>>

\* "key_count": self._count_keys(), and the return of the dict
InfoKeys ==
    /\ info.pc = "key_count"
    /\ info' = [info EXCEPT !.pc = "idle", !.key_count = count_keys(kv_entries)]
    /\ UNCHANGED <<kv_entries, revisions, leases, revision, compacted_rev, watches,
                   watchObj, pollPc, delivered, now, lock, txn, usedIds, returned,
                   sweeper, ka, unwatched>>

\* the process ends and a new DistributedConfig is constructed on the same
\* data directory: the tables are as they were, the fields of the object and
\* the threads are those of a new object
Restart ==
    /\ revision' = 0
    /\ compacted_rev' = 0
    /\ watches' = {}
    /\ lock' = "free"
    /\ txn' = [t \in Threads |-> IdleFrame]
    /\ sweeper' = [sweeper EXCEPT !.pc = "sleep", !.rows = <<>>]
    /\ ka' = IdleKeepalive
    /\ info' = IdleInfo
    /\ UNCHANGED <<kv_entries, revisions, leases, watchObj, pollPc, delivered, now,
                   usedIds, returned, unwatched>>

(***************************************************************************)
(* Specifications.  Spec: the store under clients that put, delete, grant  *)
(* and revoke leases and run transactions from several threads.           *)
(* SpecWatch: the store under clients that put, delete, compact and watch. *)
(***************************************************************************)
\* the lease ids a client can pass: those grant_lease has returned
KnownLeaseIds == LeaseIds \cap usedIds

Next ==
    \/ \E k \in Keys, v \in Values, l \in KnownLeaseIds \cup {None} : Put(k, v, l)
    \/ \E k \in Keys : Delete(k)
    \/ \E k \in Keys, e \in RangeEnds : DeleteRange(k, e)
    \/ \E ttl \in Ttls : GrantLease(ttl)
    \/ \E l \in LeaseIds : RevokeLease(l)
    \/ \E t \in Threads, c \in TxnCalls :
         TxnBegin(t, c.compare, c.success_ops, c.failure_ops)
    \/ \E t \in Threads : TxnApply(t)
    \/ \E t \in Threads : TxnReturn(t)

Spec == Init /\ [][Next]_vars

NextWatch ==
    \/ \E k \in Keys, v \in FewValues : Put(k, v, None)
    \/ \E k \in Keys : Delete(k)
    \/ \E r \in CompactRevs : Compact(r)
    \/ \E p \in WatchPrefixes : Watch(p)
    \/ \E w \in WatchIds : Unwatch(w)
    \/ \E w \in WatchIds : poll_changes(w)

SpecWatch == Init /\ [][NextWatch]_vars

\* SpecLease: the store under clients that put, delete, grant, revoke and
\* keep leases alive while the clock advances and the sweeper thread runs.
\* The sweeper is a daemon thread in an endless loop, so its steps are taken
\* whenever they stay possible.
NextLease ==
    \/ \E k \in FewKeys, v \in FewValues, l \in KnownLeaseIds \cup {None} : Put(k, v, l)
    \/ \E k \in FewKeys : Delete(k)
    \/ \E ttl \in Ttls : GrantLease(ttl)
    \/ \E l \in LeaseIds : RevokeLease(l)
    \/ \E l \in KnownLeaseIds : KeepaliveRead(l)
    \/ KeepaliveUpdate
    \/ Tick
    \/ SweepRead
    \/ SweepRevoke

SpecLease ==
    /\ Init
    /\ [][NextLease]_vars
    /\ WF_vars(SweepRead)
    /\ WF_vars(SweepRevoke)

\* SpecRestart: the store under a client that puts and deletes, across
\* restarts of the process.
NextRestart ==
    \/ \E k \in Keys, v \in FewValues : Put(k, v, None)
    \/ \E k \in Keys : Delete(k)
    \/ Restart

SpecRestart == Init /\ [][NextRestart]_vars

\* SpecInfo: the store under a client that puts, deletes and grants leases
\* while another thread calls get_cluster_info.
NextInfo ==
    \/ \E k \in Keys, v \in FewValues : Put(k, v, None)
    \/ \E k \in Keys : Delete(k)
    \/ \E ttl \in Ttls : GrantLease(ttl)
    \/ InfoRevision
    \/ InfoCompacted
    \/ InfoLeases
    \/ InfoKeys

SpecInfo == Init /\ [][NextInfo]_vars

(***************************************************************************)
(* Vocabulary of the properties.  Under Spec nothing removes a row of      *)
(* revisions, so the table is the complete record of the successful puts   *)
(* and deletes.                                                            *)
(***************************************************************************)
\* key k begins with prefix p
BeginsWith(k, p) == Len(p) <= Len(k) /\ SubSeq(k, 1, Len(p)) = p

\* the revisions at which k was put, and at which it was deleted
PutRevs(k) == {r.revision : r \in {x \in revisions : x.key = k /\ x.operation = "put"}}
DelRevs(k) == {r.revision : r \in {x \in revisions : x.key = k /\ x.operation = "delete"}}

\* the greatest element of a set of naturals, 0 for the empty set
Greatest(xs) == IF xs = {} THEN 0 ELSE CHOOSE x \in xs : \A y \in xs : y <= x

\* the revisions of the puts of k's current lifetime
LifetimePuts(k) == {p \in PutRevs(k) : p > Greatest(DelRevs(k))}

\* what a read of k at revision R is to return: the entry written by the last
\* put of k at or before R, unless k was deleted after that put and by R
ReadAt(k, R) ==
    LET p == Greatest({x \in PutRevs(k) : x <= R})
    IN  IF p = 0 \/ \E d \in DelRevs(k) : p < d /\ d <= R
        THEN {}
        ELSE {KVEntry(r) : r \in {x \in kv_entries : x.key = k /\ x.mod_revision = p}}

(***************************************************************************)
(* C1                                                                      *)
(***************************************************************************)
\* C1: the revisions returned by the successful mutations are consecutive:
\* each is the one before it plus 1.
C1_ReturnedContiguous ==
    \A i \in 1..(Len(returned) - 1) : returned[i + 1] = returned[i] + 1

(***************************************************************************)
(* C2                                                                      *)
(***************************************************************************)
\* C2: for every key k and every revision R up to the current one, get(k, R)
\* is the entry of the last put of k at or before R, or absent when k was
\* deleted between that put and R; later puts and deletes do not change it.
C2_ReadAtRevision ==
    \A k \in Keys, R \in 0..revision : get(kv_entries, k, R) = ReadAt(k, R)

(***************************************************************************)
(* C3                                                                      *)
(***************************************************************************)
\* C3: the create_revision of a key's latest live entry is the revision of
\* the first put of the key's current lifetime.
C3_CreateRevisionOfLifetime ==
    \A k \in Keys : \A e \in get(kv_entries, k, Latest) :
        /\ e.create_revision \in LifetimePuts(k)
        /\ \A p \in LifetimePuts(k) : e.create_revision <= p

(***************************************************************************)
(* C4                                                                      *)
(***************************************************************************)
\* C4: the version of a key's latest live entry is the number of puts on the
\* key since its most recent delete.
C4_VersionCountsPuts ==
    \A k \in Keys : \A e \in get(kv_entries, k, Latest) :
        e.version = Cardinality(LifetimePuts(k))

\* a key deleted once and then put twice: its live entry has version 2
C4_Witness ==
    \E k \in Keys : \E e \in get(kv_entries, k, Latest) :
        /\ DelRevs(k) # {}
        /\ Cardinality(LifetimePuts(k)) = 2
        /\ e.version = 2

(***************************************************************************)
(* C5                                                                      *)
(***************************************************************************)
\* the latest live entry of every live key that begins with p, by ascending key
LiveEntries(p) ==
    LET rows == UNION {LatestLiveRow(kv_entries, k, Latest) :
                         k \in {x \in Keys : BeginsWith(x, p)}}
        sorted == SortRows(rows)
    IN  [i \in 1..Len(sorted) |-> KVEntry(sorted[i])]

\* C5: get_prefix(p) returns exactly the latest live entry of every live key
\* that begins with p, once each, in ascending key order.
C5_PrefixExact ==
    \A p \in Prefixes : get_prefix(kv_entries, p) = LiveEntries(p)

(***************************************************************************)
(* C6                                                                      *)
(***************************************************************************)
\* k is live
Live(kv, k) == LatestLiveRow(kv, k, Latest) # {}

\* C6: a delete with a range_end returns the next revision, leaves no key of
\* the range live and leaves the entries of every other key as they were.
C6_RangeDelete ==
    [][\A key \in Keys, range_end \in RangeEnds :
         DeleteRange(key, range_end) =>
            /\ revision' = revision + 1
            /\ returned' = Append(returned, revision + 1)
            /\ \A k \in Keys :
                 IF StrLeq(key, k) /\ StrLess(k, range_end)
                 THEN ~Live(kv_entries', k)
                 ELSE {r \in kv_entries' : r.key = k} = {r \in kv_entries : r.key = k}]_vars

(***************************************************************************)
(* C7                                                                      *)
(***************************************************************************)
\* the rows of revisions a watch has still to deliver: those after its last
\* delivered revision whose key begins with its prefix, by revision
Pending(w) ==
    LogOrder({r \in revisions : /\ BeginsWith(r.key, watchObj[w].key_prefix)
                                /\ r.revision > watchObj[w].last_revision.int})

\* C7: a turn of the dispatcher of a registered watch delivers the pending
\* rows, each once and in revision order, and leaves the greatest revision
\* delivered as the watch's last delivered revision.
C7_WatchDelivers ==
    [][\A w \in watches :
         poll_changes(w) =>
            LET rows == Pending(w)
            IN  /\ delivered'[w] = delivered[w] \o Events(rows)
                /\ rows # <<>> =>
                     watchObj'[w].last_revision = [int |-> rows[Len(rows)].revision]]_vars

(***************************************************************************)
(* C8                                                                      *)
(***************************************************************************)
\* C8: while a thread is inside txn, past the evaluation of compare,
\*  - before its first op the compared keys still hold the values that
\*    selected the branch,
\*  - the revisions of the ops it has applied are consecutive and the last of
\*    them is the current revision,
\*  - and every step that changes the entries, the log or the counter is the
\*    application of its next op.
C8_TxnIsolated ==
    /\ [](\A t \in Threads : txn[t].pc = "apply" =>
            /\ txn[t].next = 1 =>
                 EvalCompare(kv_entries, txn[t].compare, TRUE) = txn[t].passed
            /\ \A i \in 1..(Len(txn[t].results) - 1) :
                 txn[t].results[i + 1].revision = txn[t].results[i].revision + 1
            /\ txn[t].results # <<>> =>
                 txn[t].results[Len(txn[t].results)].revision = revision)
    /\ [][\A t \in Threads :
            /\ txn[t].pc = "apply"
            /\ <<kv_entries, revisions, revision>>' # <<kv_entries, revisions, revision>>
            => /\ txn'[t].pc = "apply"
               /\ txn'[t].next = txn[t].next + 1]_vars

\* a thread inside txn that has applied two ops, after an earlier mutation,
\* while the other thread is outside txn
C8_Witness ==
    \E t \in Threads, u \in Threads :
        /\ t # u
        /\ txn[t].pc = "apply"
        /\ txn[u].pc = "idle"
        /\ Len(txn[t].results) = 2
        /\ txn[t].results[1].revision > 1

(***************************************************************************)
(* C9                                                                      *)
(***************************************************************************)
\* the clause (k, op, v) passes against the latest live value of k
ClausePasses(c) ==
    LET live == {r \in kv_entries : r.key = c[1] /\ r.deleted = 0}
        last == {r \in live : \A q \in live : q.mod_revision <= r.mod_revision}
    IN  IF c[2] = "==" THEN \E r \in last : r.value = c[3]
        ELSE \A r \in last : r.value # c[3]

\* C9: inside txn, passed is true exactly when every clause passes (judged
\* before the first op is applied); ops is on_success if passed and
\* on_failure otherwise; results holds, in order, one entry per op applied,
\* with the op's key and the revision at which the log records the op.
C9_TxnBranch ==
    \A t \in Threads : txn[t].pc = "apply" =>
        /\ txn[t].next = 1 =>
             (txn[t].passed <=>
                \A i \in 1..Len(txn[t].compare) : ClausePasses(txn[t].compare[i]))
        /\ txn[t].ops = IF txn[t].passed THEN txn[t].success_ops
                        ELSE txn[t].failure_ops
        /\ Len(txn[t].results) = txn[t].next - 1
        /\ \A i \in 1..Len(txn[t].results) :
             /\ txn[t].results[i].key = txn[t].ops[i][2]
             /\ \E r \in revisions :
                  /\ r.revision = txn[t].results[i].revision
                  /\ r.operation = txn[t].ops[i][1]
                  /\ r.key = txn[t].ops[i][2]
             /\ \A j \in 1..(i - 1) :
                  txn[t].results[j].revision < txn[t].results[i].revision

\* a txn whose compare did not pass, at its return with the op of its
\* on_failure branch applied
C9_Witness ==
    \E t \in Threads :
        /\ txn[t].pc = "apply"
        /\ ~txn[t].passed
        /\ txn[t].compare # <<>>
        /\ txn[t].next > Len(txn[t].ops)
        /\ Len(txn[t].results) = 1

Expired(l) == l \in DOMAIN leases /\ leases[l].expires_at < now

\* lease l has no record (so no query of cluster info counts it)
Gone(l) == l \notin DOMAIN leases

C12_PutUnknownLease ==
    /\ [][\A k \in Keys, v \in Values, l \in LeaseIds :
            (Put(k, v, l) /\ (l \notin DOMAIN leases \/ Expired(l)))
               => UNCHANGED <<kv_entries, revisions, revision, leases>>]_vars
    /\ [](\A k \in Keys : \A e \in get(kv_entries, k, Latest) :
             e.lease_id # None => e.lease_id \in DOMAIN leases)

(***************************************************************************)
(* C14                                                                     *)
(***************************************************************************)
\* C14: compact at a revision greater than the current one changes nothing,
\* so compacted_rev never exceeds the revision counter; compact lowers
\* neither compacted_rev nor the counter.
C14_CompactBounded ==
    /\ [](compacted_rev <= revision)
    /\ [][\A r \in CompactRevs :
            Compact(r) =>
               /\ r > revision => UNCHANGED <<compacted_rev, revisions, kv_entries>>
               /\ compacted_rev' >= compacted_rev
               /\ revision' = revision]_vars

(***************************************************************************)
(* C15                                                                     *)
(***************************************************************************)
\* C15: after a compaction at a revision the store has reached, the history
\* of a key holds no entry with mod_revision at or below compacted_rev, and a
\* get at a revision at or below compacted_rev for which the log holds no
\* record of the key ends with CompactedOutOfRange.
C15_CompactedHistory ==
    (0 < compacted_rev /\ compacted_rev <= revision) =>
        \A k \in Keys :
            /\ \A limit \in HistoryLimits :
                 LET h == list_revision_history(kv_entries, k, limit)
                 IN  \A i \in 1..Len(h) : h[i].mod_revision > compacted_rev
            /\ \A R \in 1..compacted_rev :
                 (\A r \in revisions : ~(r.key = k /\ r.revision <= R))
                    => get_outcome(kv_entries, k, R) = "CompactedOutOfRange"

(***************************************************************************)
(* C16                                                                     *)
(***************************************************************************)
\* C16: when keepalive returns true the lease has a record and its deadline
\* is the current instant plus its ttl_s; when it returns false the lease
\* has no record.
C16_KeepaliveTrueMeansAlive ==
    [][/\ KeepaliveUpdate =>
            /\ ka.lease_id \in DOMAIN leases'
            /\ leases'[ka.lease_id].expires_at = now + leases'[ka.lease_id].ttl_s
       /\ \A l \in LeaseIds :
            (KeepaliveRead(l) /\ ka'.ret = "False") => l \notin DOMAIN leases']_vars

C19_SweepOnlyExpired ==
    [][SweepRevoke =>
          \A l \in DOMAIN leases : l \notin DOMAIN leases' => leases[l].expires_at < now]_vars

(***************************************************************************)
(* C20                                                                     *)
(***************************************************************************)
\* C20: a step that commits no mutation (it appends no revision to those
\* returned) leaves the revision counter as it was, and the counter is the
\* number of mutations committed.
C20_FailureKeepsCounter ==
    /\ [][returned' = returned => revision' = revision]_vars
    /\ [](revision = Len(returned))

(***************************************************************************)
(* C21                                                                     *)
(***************************************************************************)
\* C21: the revision counter is at least every revision stored in the log
\* and in the entries, also after a restart, and every put and every delete
\* succeeds and returns a revision greater than all of them.
C21_CounterCoversPersisted ==
    /\ [](/\ \A r \in revisions : r.revision <= revision
          /\ \A e \in kv_entries : e.mod_revision <= revision)
    /\ [][((\E k \in Keys, v \in FewValues : Put(k, v, None)) \/ (\E k \in Keys : Delete(k)))
             => /\ Len(returned') = Len(returned) + 1
                /\ \A r \in revisions : r.revision < returned'[Len(returned')]
                /\ \A e \in kv_entries : e.mod_revision < returned'[Len(returned')]]_vars

(***************************************************************************)
(* C22                                                                     *)
(***************************************************************************)
\* the number of keys that were live when the revision counter was r: those
\* whose last log record up to r is a put (under SpecInfo no log record is
\* removed and every mutation commits)
KeyCountAt(r) ==
    Cardinality({k \in Keys :
        Greatest({p \in PutRevs(k) : p <= r}) > Greatest({d \in DelRevs(k) : d <= r})})

\* C22: the revision and the key_count of a report returned by
\* get_cluster_info are those of one state of the store: key_count is the
\* number of keys live at the reported revision.
C22_InfoSelfConsistent ==
    info.pc = "idle" => info.key_count = KeyCountAt(info.revision)

\* no lease of a reachable state has a key in its key set
NoBoundKey == \A l \in DOMAIN leases : leases[l].keys = <<>>

====
